---- MODULE Spec2Model ----
(***************************************************************************)
(* lite-cron: the configuration-to-cron pipeline (make_cron.py,            *)
(* make_env.py), the task wrapper (task_wrapper.py) and the ways a task is *)
(* started (cron line, manage.py run, webapp.py run).                      *)
(*                                                                         *)
(* Text is modelled as a sequence of tokens.  A token is a substring that  *)
(* the code never looks inside of: "_" , "=" , the double quote and the    *)
(* backslash are tokens of their own, because prefix tests, split('=') and *)
(* the quote escaping act on them.                                         *)
(***************************************************************************)
EXTENDS Integers, Sequences, FiniteSets, TLC

VARIABLES
    config,         \* the parsed config.yml: [tasks, global_env]
    disk,           \* script paths for which os.path.exists holds
    wrapperExists,  \* /app/task_wrapper.py is present
    notifyExists,   \* /app/notify.py is present
    baseEnv,        \* the container's own environment (may set LOG_LINES)
    cronFile,       \* lines of the crontab file
    cronRet,        \* what the last generate_cron returned ("none" before any run)
    cronRuns,       \* number of generate_cron runs so far
    envExists,      \* /app/.env is present
    envFile,        \* lines of /app/.env
    envRuns,        \* number of generate_env runs so far
    run,            \* the last started task: how it ran and what the child saw
    envReadable,    \* open() on /app/.env succeeds
    notifyOutcome,  \* what starting /app/notify.py from the wrapper does
    batch,          \* the last `run --all`: tasks started, their results, return code
    listing,        \* what the last `list` printed for each task
    notifyFile,     \* the notify section of config.yml as notify.py finds it
    nt,             \* the notify() call in progress and its channel threads
    configFile,     \* config.yml on disk: "ok", "missing" or "malformed" (not YAML)
    envRet,         \* what the last generate_env returned ("none" before any run)
    mgr,            \* the container as manage.py sees it, and its last command
    web,            \* the toggle requests of the web UI and its task list
    rq              \* the request_with_retry call in progress

vars == <<config, disk, wrapperExists, notifyExists, baseEnv, cronFile,
          cronRet, cronRuns, envExists, envFile, envRuns, run,
          envReadable, notifyOutcome, batch, listing, notifyFile, nt,
          configFile, envRet, mgr, web, rq>>

(***************************************************************************)
(* Bounds                                                                  *)
(***************************************************************************)
MaxTasks == 2      \* tasks in one configuration
MaxCronRuns == 2   \* generate_cron runs on one cron file
MaxEnvRuns == 2    \* generate_env runs on one env file
MaxOutput == 3     \* lines a child script prints
MaxEnvLines == 3   \* lines of a hand-written env file
MaxValLen == 3     \* characters of an environment value written and read back
MaxRetry == 3      \* largest retry argument of request_with_retry

(***************************************************************************)
(* Generic helpers on sequences                                            *)
(***************************************************************************)
StartsWith(s, p) == Len(p) <= Len(s) /\ SubSeq(s, 1, Len(p)) = p

EndsWith(s, p) == Len(p) <= Len(s) /\ SubSeq(s, Len(s) - Len(p) + 1, Len(s)) = p

Drop(s, n) == SubSeq(s, n + 1, Len(s))

IsSuffix(x, s) == EndsWith(s, x)

(***************************************************************************)
(* Configuration values                                                    *)
(***************************************************************************)
NameA == <<"a">>
NameAB == <<"a", "_", "b">>
TaskNames == {NameA, NameAB}

KeyK == <<"K">>
KeyBK == <<"b", "_", "K">>
EnvKeys == {KeyK, KeyBK}
KeyOrder == <<KeyK, KeyBK, <<"LOG_LINES">> >>  \* the order in which a mapping lists its keys

Val1 == <<"1">>
ValQ == <<"\\", "\"", "2">>
EnvValues == {Val1, ValQ}

Scripts == {"s1.py", "s2.py"}
NoScript == ""

DefaultSchedule == "0 * * * *"
OtherSchedule == "5 4 * * *"

EnabledFlags == {"true", "false", "absent"}

EnvMaps(keys) == UNION {[d -> EnvValues] : d \in SUBSET keys}

NoEnv == [k \in {} |-> Val1]

Put(env, k, v) == [x \in DOMAIN env \cup {k} |-> IF x = k THEN v ELSE env[x]]

\* for key, value in m.items(): env[key] = value
PutAll(env, m) == [x \in DOMAIN env \cup DOMAIN m |-> IF x \in DOMAIN m THEN m[x] ELSE env[x]]

Task(n, e, s, p, v) == [name |-> n, enabled |-> e, schedule |-> s, script |-> p, env |-> v]

\* a generator that never looks at the flag
IsEnabledIgnored(task) == TRUE

\* task.get('enabled', True)
IsEnabled(task) == task.enabled # "false"

\* task.get('schedule', '0 * * * *')
ScheduleOf(task) == IF task.schedule = "absent" THEN DefaultSchedule ELSE task.schedule

\* has_global: the document has a global_env key
Config(ts, hg, g) == [tasks |-> ts, has_global |-> hg, global_env |-> g]

UniqueNames(ts) == \A i, j \in 1..Len(ts) : ts[i].name = ts[j].name => i = j

TaskSeqs(T) == {ts \in UNION {[1..n -> T] : n \in 0..MaxTasks} : UniqueNames(ts)}

(***************************************************************************)
(* make_cron.py                                                            *)
(***************************************************************************)
Line(k, s, n, p, w) == [kind |-> k, schedule |-> s, name |-> n, script |-> p, wrapper |-> w]

HeaderLine == Line("header", "", <<>>, "", FALSE)
BlankLine == Line("blank", "", <<>>, "", FALSE)
CommentLine(n) == Line("comment", "", n, "", FALSE)

\* with the wrapper: python3 /app/task_wrapper.py '{name}' '{script}';
\* without it the line runs the script itself and carries no name
ExecLine(task, wrap) ==
    Line("exec", ScheduleOf(task), IF wrap THEN task.name ELSE <<>>, task.script, wrap)

\* the loop without its os.path.exists test
SkipsTaskNoExists(task, dsk) ==
    \/ ~IsEnabled(task)
    \/ task.script = NoScript

\* the three `continue` tests of the loop
SkipsTask(task, dsk) ==
    \/ ~IsEnabled(task)
    \/ task.script = NoScript
    \/ task.script \notin dsk

TaskCronLines(task, wrap) == <<CommentLine(task.name), ExecLine(task, wrap), BlankLine>>

RECURSIVE CronBody(_, _, _)
CronBody(ts, dsk, wrap) ==
    IF ts = <<>> THEN <<>>
    ELSE (IF SkipsTask(Head(ts), dsk) THEN <<>> ELSE TaskCronLines(Head(ts), wrap))
         \o CronBody(Tail(ts), dsk, wrap)

\* everything one run writes through the handle opened on the cron file
CronOutput(cfg, dsk, wrap) ==
    IF cfg.tasks = <<>> THEN <<HeaderLine>>
    ELSE <<HeaderLine>> \o CronBody(cfg.tasks, dsk, wrap) \o <<BlankLine>>

\* open(cron_file, 'a'): what is written goes after what the file holds
OpenCronFile(old, new) == old \o new

\* a generator that catches FileNotFoundError only
ReadConfigNoYamlCatch(state) ==
    CASE state = "ok" -> "loaded" [] state = "missing" -> "false" [] OTHER -> "raised"

\* the try block around open and yaml.safe_load, in both generators:
\* FileNotFoundError and yaml.YAMLError end the generator with False
ReadConfig(state) == IF state = "ok" THEN "loaded" ELSE "false"

GenerateCron ==
    /\ cronRuns < MaxCronRuns
    /\ IF ReadConfig(configFile) = "loaded"
       THEN /\ cronFile' = OpenCronFile(cronFile, CronOutput(config, disk, wrapperExists))
            /\ cronRet' = "true"
       ELSE /\ cronFile' = cronFile
            /\ cronRet' = ReadConfig(configFile)
    /\ cronRuns' = cronRuns + 1
    /\ UNCHANGED <<config, disk, wrapperExists, notifyExists, baseEnv,
                   envExists, envFile, envRuns, run,
                   envReadable, notifyOutcome, batch, listing, notifyFile, nt,
                   configFile, envRet, mgr, web, rq>>

\* the executable lines written for the task called n: each follows its comment line
ExecLinesFor(file, n) ==
    {i \in 2..Len(file) : /\ file[i].kind = "exec"
                          /\ file[i - 1].kind = "comment"
                          /\ file[i - 1].name = n}

(***************************************************************************)
(* make_env.py                                                             *)
(***************************************************************************)
DQ == "\""
BS == "\\"
SQ == "'"
SP == " "
HASH == "#"
EQ == "="
EXPORT == "export "

Times == {"09:00:00", "09:00:01"}   \* what datetime.now() may format to

MapKeys(m) == SelectSeq(KeyOrder, LAMBDA k : k \in DOMAIN m)

\* str(value).replace('"', '\\"')
RECURSIVE Escape(_)
Escape(v) ==
    IF v = <<>> THEN <<>>
    ELSE (IF Head(v) = DQ THEN <<BS, DQ>> ELSE <<Head(v)>>) \o Escape(Tail(v))

\* f'export {key}="{escaped_value}"'
ExportLine(key, value) == <<EXPORT>> \o key \o <<EQ, DQ>> \o Escape(value) \o <<DQ>>

\* f"{task_name}_{key}"
EnvKey(name, key) == name \o <<"_">> \o key

TimestampMark == <<HASH, " generated at: ">>

EnvHeader(ts) ==
    << <<HASH, " generated environment file">>,
       TimestampMark \o <<ts>>,
       <<HASH, " do not edit">>,
       <<>> >>

RECURSIVE ExportLines(_, _, _)
ExportLines(keys, m, name) ==
    IF keys = <<>> THEN <<>>
    ELSE <<ExportLine(IF name = <<>> THEN Head(keys) ELSE EnvKey(name, Head(keys)),
                      m[Head(keys)])>>
         \o ExportLines(Tail(keys), m, name)

GlobalEnvLines(cfg) ==
    IF cfg.has_global
    THEN << <<HASH, " global environment">> >>
         \o ExportLines(MapKeys(cfg.global_env), cfg.global_env, <<>>)
         \o << <<>> >>
    ELSE <<>>

TaskEnvLines(task) ==
    IF task.name = <<>> THEN <<>>
    ELSE << <<HASH, " task: ">> \o task.name
               \o <<" (", IF IsEnabled(task) THEN "on" ELSE "off", ")">> >>
         \o ExportLines(MapKeys(task.env), task.env, task.name)
         \o << <<>> >>

RECURSIVE TasksEnvLines(_)
TasksEnvLines(ts) ==
    IF ts = <<>> THEN <<>> ELSE TaskEnvLines(Head(ts)) \o TasksEnvLines(Tail(ts))

\* everything one run writes through the handle opened on the env file
EnvOutput(cfg, ts) ==
    EnvHeader(ts)
    \o GlobalEnvLines(cfg)
    \o (IF cfg.tasks # <<>>
        THEN << <<HASH, " task environment">> >> \o TasksEnvLines(cfg.tasks)
        ELSE <<>>)

\* a generator that opens the env file the way the cron file is opened
OpenEnvFileAppend(old, new) == old \o new

\* open(env_file, 'w'): the file is truncated first
OpenEnvFile(old, new) == new

GenerateEnv ==
    /\ envRuns < MaxEnvRuns
    /\ IF ReadConfig(configFile) = "loaded"
       THEN /\ \E ts \in Times : envFile' = OpenEnvFile(envFile, EnvOutput(config, ts))
            /\ envExists' = TRUE
            /\ envRet' = "true"
       ELSE /\ UNCHANGED <<envFile, envExists>>
            /\ envRet' = ReadConfig(configFile)
    /\ envRuns' = envRuns + 1
    /\ UNCHANGED <<config, disk, wrapperExists, notifyExists, baseEnv,
                   cronFile, cronRet, cronRuns, run,
                   envReadable, notifyOutcome, batch, listing, notifyFile, nt,
                   configFile, mgr, web, rq>>

(***************************************************************************)
(* task_wrapper.py                                                         *)
(***************************************************************************)
RECURSIVE LStrip(_)
LStrip(s) == IF s # <<>> /\ Head(s) = SP THEN LStrip(Tail(s)) ELSE s

RECURSIVE RStrip(_)
RStrip(s) == IF s # <<>> /\ s[Len(s)] = SP THEN RStrip(SubSeq(s, 1, Len(s) - 1)) ELSE s

\* str.strip()
Strip(s) == RStrip(LStrip(s))

\* position of the first "=" (0 when there is none)
RECURSIVE FirstEq(_, _)
FirstEq(s, i) == IF i > Len(s) THEN 0 ELSE IF s[i] = EQ THEN i ELSE FirstEq(s, i + 1)

\* value.replace('\\"', '"')
RECURSIVE Unescape(_)
Unescape(v) ==
    IF v = <<>> THEN <<>>
    ELSE IF Len(v) >= 2 /\ v[1] = BS /\ v[2] = DQ THEN <<DQ>> \o Unescape(Drop(v, 2))
    ELSE <<Head(v)>> \o Unescape(Tail(v))

\* a quote handling that strips the outer quotes and leaves the escapes
UnquoteKeepsEscapes(v) ==
    IF StartsWith(v, <<DQ>>) /\ EndsWith(v, <<DQ>>) THEN SubSeq(v, 2, Len(v) - 1)
    ELSE IF StartsWith(v, <<SQ>>) /\ EndsWith(v, <<SQ>>) THEN SubSeq(v, 2, Len(v) - 1)
    ELSE v

\* the quote handling of load_env_file
Unquote(v) ==
    LET inner == IF StartsWith(v, <<DQ>>) /\ EndsWith(v, <<DQ>>) THEN SubSeq(v, 2, Len(v) - 1)
                 ELSE IF StartsWith(v, <<SQ>>) /\ EndsWith(v, <<SQ>>) THEN SubSeq(v, 2, Len(v) - 1)
                 ELSE v
    IN Unescape(inner)

\* one line of the env file applied to the environment
LoadLine(env, raw) ==
    LET line == Strip(raw) IN
    IF line = <<>> \/ StartsWith(line, <<HASH>>) THEN env
    ELSE LET body == IF StartsWith(line, <<EXPORT>>) THEN Drop(line, 1) ELSE line
             eq == FirstEq(body, 1)
         IN IF eq = 0 THEN env
            ELSE Put(env, Strip(SubSeq(body, 1, eq - 1)), Unquote(Drop(body, eq)))

\* os.environ[key] = value raises OSError for an empty key
LineRaises(raw) ==
    LET line == Strip(raw)
        body == IF StartsWith(line, <<EXPORT>>) THEN Drop(line, 1) ELSE line
        eq == FirstEq(body, 1)
    IN /\ line # <<>>
       /\ ~StartsWith(line, <<HASH>>)
       /\ eq # 0
       /\ Strip(SubSeq(body, 1, eq - 1)) = <<>>

\* the loop of load_env_file; the try block is around the loop, so the first
\* raising line ends the loading
RECURSIVE LoadLines(_, _)
LoadLines(env, lines) ==
    IF lines = <<>> THEN env
    ELSE IF LineRaises(Head(lines)) THEN env
    ELSE LoadLines(LoadLine(env, Head(lines)), Tail(lines))

\* load_env_file: os.environ after the call
LoadEnvFile(env, exists, lines) == IF exists THEN LoadLines(env, lines) ELSE env

\* setup_task_env: the unprefixed variables of the task
SetupTaskEnv(name, env) ==
    LET prefix == name \o <<"_">>
        hits == {k \in DOMAIN env : StartsWith(k, prefix)}
    IN [o \in {Drop(k, Len(prefix)) : k \in hits} |-> env[prefix \o o]]

LogLinesKey == <<"LOG_LINES">>
ModeKey == <<"LITECRON_EXEC_MODE">>
DefaultLogLines == 15

Numerals == ("0" :> 0) @@ ("1" :> 1) @@ ("2" :> 2)

\* int(text): ok is FALSE where Python raises ValueError
ParseInt(v) ==
    IF Len(v) = 1 /\ v[1] \in DOMAIN Numerals THEN [ok |-> TRUE, n |-> Numerals[v[1]]]
    ELSE IF Len(v) = 2 /\ v[1] = "-" /\ v[2] \in DOMAIN Numerals
         THEN [ok |-> TRUE, n |-> 0 - Numerals[v[2]]]
    ELSE [ok |-> FALSE, n |-> 0]

\* int(os.environ.get('LOG_LINES', 15))
LogLinesOf(env) ==
    IF LogLinesKey \in DOMAIN env THEN ParseInt(env[LogLinesKey])
    ELSE [ok |-> TRUE, n |-> DefaultLogLines]

\* output_lines[-n:] as Python slices it: -0 is 0, a negative n gives a positive start
LastLines(out, n) ==
    IF n > 0 THEN (IF n >= Len(out) THEN out ELSE Drop(out, Len(out) - n))
    ELSE (IF 0 - n >= Len(out) THEN <<>> ELSE Drop(out, 0 - n))

NoOutputText == <<"<no output>">>

\* '\n'.join(output_lines[-log_lines:]) if output_lines else the placeholder
LogExcerpt(out, n) == IF out # <<>> THEN LastLines(out, n) ELSE NoOutputText

FailedSuffix == <<" run ", "FAILED">>
FailureWords == {"FAILED", "ERROR", "EXCEPTION"}

\* notify.py: a title is a failure title when it contains one of the three words
IsFailureTitle(title) == \E i \in 1..Len(title) : title[i] \in FailureWords

NotifyCall(name, out, n) ==
    [title |-> name \o FailedSuffix, content |-> "see the log",
     log_content |-> LogExcerpt(out, n), log_lines |-> n]

\* a wrapper that notifies whatever the exit code
NotifyCallsAnyExit(name, env, out, code, hasNotify) ==
    IF hasNotify /\ LogLinesOf(env).ok
    THEN <<NotifyCall(name, out, LogLinesOf(env).n)>>
    ELSE <<>>

\* the notify.py invocations of one wrapper run
NotifyCalls(name, env, out, code, hasNotify) ==
    IF code # 0 /\ hasNotify /\ LogLinesOf(env).ok
    THEN <<NotifyCall(name, out, LogLinesOf(env).n)>>
    ELSE <<>>

\* a wrapper without the try block around the notification
NotifyEscapesUncaught(raised) == raised

\* `except Exception: pass`: nothing raised while notifying leaves the block
NotifyEscapes(raised) == FALSE

\* sys.exit(exit_code); the body of the try block raises when int() fails on
\* LOG_LINES or subprocess.run raises; an exception that reached the top would
\* end the wrapper with 1
WrapperExit(code, env, hasNotify, outcome) ==
    IF code # 0 /\ hasNotify /\ NotifyEscapes(~LogLinesOf(env).ok \/ outcome = "raises")
    THEN 1 ELSE code

NoRun == [mode |-> "none", task |-> <<>>, spawned |-> FALSE, viaWrapper |-> FALSE,
          envLoaded |-> FALSE, loaded |-> NoEnv, stripped |-> NoEnv, childEnv |-> NoEnv,
          output |-> <<>>, childExit |-> 0, exit |-> 0, notified |-> <<>>]

\* main() of the wrapper started as `task_wrapper.py name script` in environment pre
WrapperMain(mode, name, pre, out, code) ==
    LET loaded == LoadEnvFile(pre, envExists /\ envReadable, envFile)
        stripped == SetupTaskEnv(name, loaded)
        env == PutAll(loaded, stripped)
    IN [mode |-> mode, task |-> name, spawned |-> TRUE, viaWrapper |-> TRUE,
        envLoaded |-> envExists /\ envReadable, loaded |-> loaded,
        stripped |-> stripped, childEnv |-> env,
        output |-> out, childExit |-> code,
        exit |-> WrapperExit(code, env, notifyExists, notifyOutcome),
        notified |-> NotifyCalls(name, env, out, code, notifyExists)]

\* the script started without the wrapper
DirectRun(mode, name, pre, out, code) ==
    [mode |-> mode, task |-> name, spawned |-> TRUE, viaWrapper |-> FALSE,
     envLoaded |-> FALSE, loaded |-> pre, stripped |-> NoEnv, childEnv |-> pre,
     output |-> out, childExit |-> code, exit |-> code, notified |-> <<>>]

\* a request that ends before anything is started
Refused(mode, name, code) ==
    [NoRun EXCEPT !.mode = mode, !.task = name, !.exit = code]

LowerTok(c) == CASE c = "A" -> "a" [] c = "B" -> "b" [] c = "K" -> "k" [] OTHER -> c

\* str.lower()
Lower(s) == [i \in 1..Len(s) |-> LowerTok(s[i])]

\* a lookup that falls back to the first task when no name matches
FindTaskOrFirst(ts, req) ==
    LET hits == {i \in 1..Len(ts) : Lower(ts[i].name) = Lower(req)}
    IN IF hits = {} THEN (IF Len(ts) > 0 THEN 1 ELSE 0)
       ELSE CHOOSE i \in hits : \A j \in hits : i <= j

\* the first task whose lower-cased name equals the lower-cased request (0: none)
FindTask(ts, req) ==
    LET hits == {i \in 1..Len(ts) : Lower(ts[i].name) = Lower(req)}
    IN IF hits = {} THEN 0 ELSE CHOOSE i \in hits : \A j \in hits : i <= j

GlobalEnvOf(cfg) == IF cfg.has_global THEN cfg.global_env ELSE NoEnv

\* the task's entries first, then the global ones, as both launchers list them
LauncherEnv(pre, mode, task, cfg) ==
    PutAll(PutAll(Put(pre, ModeKey, <<mode>>), task.env), GlobalEnvOf(cfg))

Frame == UNCHANGED <<config, disk, wrapperExists, notifyExists, baseEnv, cronFile,
                     cronRet, cronRuns, envExists, envFile, envRuns,
                     envReadable, notifyOutcome, batch, listing, notifyFile, nt,
                     configFile, envRet, mgr, web, rq>>

\* the cron daemon runs the i-th line of the cron file, a line that names the wrapper
RunCron(i, out, code) ==
    /\ i \in 1..Len(cronFile)
    /\ cronFile[i].kind = "exec"
    /\ cronFile[i].wrapper
    /\ run' = WrapperMain("cron", cronFile[i].name, NoEnv, out, code)
    /\ Frame

\* manage.py run <task>
RunCli(req, out, code) ==
    /\ LET i == FindTask(config.tasks, req) IN
         run' = IF i = 0 THEN Refused("cli", req, 1)
                ELSE IF ~IsEnabled(config.tasks[i]) THEN Refused("cli", req, 1)
                ELSE IF config.tasks[i].script = NoScript THEN Refused("cli", req, 1)
                ELSE IF ~wrapperExists THEN Refused("cli", req, 2)
                ELSE WrapperMain("cli", req,
                                 LauncherEnv(baseEnv, "cli", config.tasks[i], config),
                                 out, code)
    /\ Frame

\* webapp.py POST /api/tasks/<task_name>/run
RunWebui(req, out, code) ==
    /\ LET i == FindTask(config.tasks, req) IN
         run' = IF i = 0 THEN Refused("webui", req, 1)
                ELSE IF ~IsEnabled(config.tasks[i]) THEN Refused("webui", req, 1)
                ELSE IF config.tasks[i].script = NoScript THEN Refused("webui", req, 1)
                ELSE IF config.tasks[i].script \notin disk THEN Refused("webui", req, 1)
                ELSE IF wrapperExists
                     THEN WrapperMain("webui", req,
                                      LauncherEnv(baseEnv, "webui", config.tasks[i], config),
                                      out, code)
                     ELSE DirectRun("webui", req,
                                    LauncherEnv(baseEnv, "webui", config.tasks[i], config),
                                    out, code)
    /\ Frame

(***************************************************************************)
(* manage.py run --all                                                     *)
(***************************************************************************)
NoBatch == [refused |-> FALSE, started |-> <<>>, results |-> <<>>, ret |-> -1]

\* the wrapper runs of one batch: task i's child exits with codes[i]
BatchRuns(ts, codes) ==
    [i \in 1..Len(ts) |->
        WrapperMain("cli", ts[i].name, LauncherEnv(baseEnv, "cli", ts[i], config),
                    <<>>, codes[i])]

\* a loop that gives up at the first task that fails
RECURSIVE RanUntilFailure(_)
RanUntilFailure(runs) ==
    IF runs = <<>> THEN <<>>
    ELSE IF Head(runs).exit # 0 THEN <<Head(runs)>>
    ELSE <<Head(runs)>> \o RanUntilFailure(Tail(runs))

\* for task in tasks_to_run: every task is run, whatever the earlier results
Ran(runs) == runs

\* manage.py run --all; running: the container is up
RunAll(running, codes) ==
    LET tasks_to_run == SelectSeq(config.tasks, IsEnabled)
        runs == Ran(BatchRuns(tasks_to_run, codes))
        results == [i \in 1..Len(runs) |-> runs[i].exit]
    IN /\ batch' = IF ~running THEN [NoBatch EXCEPT !.refused = TRUE, !.ret = 1]
                   ELSE IF tasks_to_run = <<>> THEN [NoBatch EXCEPT !.ret = 1]
                   ELSE [refused |-> FALSE,
                         started |-> [i \in 1..Len(runs) |-> runs[i].task],
                         results |-> results,
                         ret |-> IF \E i \in 1..Len(results) : results[i] # 0
                                 THEN 1 ELSE 0]
       /\ run' = IF running /\ runs # <<>> THEN runs[Len(runs)] ELSE run
       /\ UNCHANGED <<config, disk, wrapperExists, notifyExists, baseEnv, cronFile,
                      cronRet, cronRuns, envExists, envFile, envRuns,
                      envReadable, notifyOutcome, listing, notifyFile, nt,
                      configFile, envRet, mgr, web, rq>>

(***************************************************************************)
(* manage.py list: parse_cron and cmd_list.  A schedule is a sequence of   *)
(* characters; a Chinese character of the output is written in pinyin      *)
(***************************************************************************)
\* str.split(): the maximal runs without a blank
RECURSIVE SplitFrom(_, _, _, _)
SplitFrom(s, i, cur, acc) ==
    IF i > Len(s) THEN (IF cur = <<>> THEN acc ELSE Append(acc, cur))
    ELSE IF s[i] = SP
    THEN SplitFrom(s, i + 1, <<>>, IF cur = <<>> THEN acc ELSE Append(acc, cur))
    ELSE SplitFrom(s, i + 1, Append(cur, s[i]), acc)

Split(s) == SplitFrom(s, 1, <<>>, <<>>)

\* " ".join(desc)
RECURSIVE JoinSp(_)
JoinSp(desc) ==
    IF desc = <<>> THEN <<>>
    ELSE IF Len(desc) = 1 THEN desc[1]
    ELSE desc[1] \o <<SP>> \o JoinSp(Tail(desc))

MinuteDesc(minute) ==
    IF minute = <<"*">> THEN <<"mei", "fen", "zhong">>
    ELSE IF StartsWith(minute, <<"*", "/">>) THEN <<"mei">> \o Drop(minute, 2) \o <<"fen", "zhong">>
    ELSE minute \o <<"fen">>

\* an hour part that says "every hour" for every wildcard hour
HourDescAlways(hour, desc) ==
    IF hour = <<"*">> THEN Append(desc, <<"mei", "xiao", "shi">>)
    ELSE IF StartsWith(hour, <<"*", "/">>)
    THEN Append(desc, <<"mei">> \o Drop(hour, 2) \o <<"xiao", "shi">>)
    ELSE Append(desc, hour \o <<"shi">>)

HourDesc(hour, desc) ==
    IF hour = <<"*">>
    THEN (IF (\E k \in 1..Len(desc[1]) : desc[1][k] = "mei") THEN Append(desc, <<"mei", "xiao", "shi">>) ELSE desc)
    ELSE IF StartsWith(hour, <<"*", "/">>)
    THEN Append(desc, <<"mei">> \o Drop(hour, 2) \o <<"xiao", "shi">>)
    ELSE Append(desc, hour \o <<"shi">>)

weekdays ==
    [d \in {<<"0">>, <<"1">>, <<"2">>, <<"3">>, <<"4">>, <<"5">>, <<"6">>, <<"7">>} |->
        CASE d = <<"0">> -> <<"zhou", "ri">>
          [] d = <<"1">> -> <<"zhou", "yi">>
          [] d = <<"2">> -> <<"zhou", "er">>
          [] d = <<"3">> -> <<"zhou", "san">>
          [] d = <<"4">> -> <<"zhou", "si">>
          [] d = <<"5">> -> <<"zhou", "wu">>
          [] d = <<"6">> -> <<"zhou", "liu">>
          [] d = <<"7">> -> <<"zhou", "ri">>]

\* a date part that knows the weekday only
DateDescWeekdayOnly(day, month, weekday, cron_expr, desc) ==
    IF weekday # <<"*">> /\ weekday \in DOMAIN weekdays
    THEN Append(desc, <<"mei">> \o weekdays[weekday])
    ELSE desc

DateDesc(day, month, weekday, cron_expr, desc) ==
    IF day # <<"*">> \/ month # <<"*">> \/ weekday # <<"*">>
    THEN IF weekday # <<"*">>
         THEN (IF weekday \in DOMAIN weekdays
               THEN Append(desc, <<"mei">> \o weekdays[weekday])
               ELSE desc)
         ELSE Append(desc, <<"ri", "qi", ":", SP>> \o cron_expr)
    ELSE desc

parse_cron(cron_expr) ==
    LET parts == Split(cron_expr)
    IN IF Len(parts) # 5 THEN cron_expr
       ELSE LET desc == DateDesc(parts[3], parts[4], parts[5], cron_expr,
                                 HourDesc(parts[2], <<MinuteDesc(parts[1])>>))
            IN IF Len(desc) <= 3 THEN JoinSp(desc) ELSE cron_expr

\* a task without a schedule key has the schedule <<"absent">>; the list shows
\* the default text "wu diao du" for it
ListRow(task) ==
    LET schedule == IF task.schedule = <<"absent">> THEN <<"wu", "diao", "du">>
                    ELSE task.schedule
        readable == parse_cron(schedule)
    IN [name |-> task.name, enabled |-> IsEnabled(task), schedule |-> schedule,
        readable |-> readable, shown |-> readable # schedule]

NoListing == [ret |-> -1, total |-> 0, rows |-> <<>>, enabledCount |-> 0, disabledCount |-> 0]

\* manage.py list
CmdList ==
    /\ LET tasks == config.tasks
           on == {i \in 1..Len(tasks) : IsEnabled(tasks[i])}
       IN listing' = IF tasks = <<>> THEN [NoListing EXCEPT !.ret = 0]
                     ELSE [ret |-> 0, total |-> Len(tasks),
                           rows |-> [i \in 1..Len(tasks) |-> ListRow(tasks[i])],
                           enabledCount |-> Cardinality(on),
                           disabledCount |-> Len(tasks) - Cardinality(on)]
    /\ UNCHANGED <<config, disk, wrapperExists, notifyExists, baseEnv, cronFile,
                   cronRet, cronRuns, envExists, envFile, envRuns, run,
                   envReadable, notifyOutcome, batch, notifyFile, nt,
                   configFile, envRet, mgr, web, rq>>

(***************************************************************************)
(* notify.py: configuration, trigger flags, one thread per channel         *)
(***************************************************************************)
\* dict.get(key, default); "absent": the document has no such key
Get(v, default) == IF v = "absent" THEN default ELSE v

\* Python truth of a configuration value read from YAML
Truthy(v) == v \notin {"", "false"}

EmptyDoc ==
    [on_failure |-> "absent", on_success |-> "absent", webhook_url |-> "absent",
     webhook_method |-> "absent", ntfy_url |-> "absent", ntfy_topic |-> "absent"]

\* a configuration file: missing, malformed (unparsable) or ok with its notify mapping
File(st, d) == [state |-> st, doc |-> d]

\* /app/config.yml, config.yml, $LITECRON_CONFIG
NoNotifyFile == [i \in 1..3 |-> File("missing", EmptyDoc)]

DefaultNotifyConfig ==
    [on_failure |-> "true", on_success |-> "false", webhook_url |-> "",
     webhook_method |-> "POST", ntfy_url |-> "", ntfy_topic |-> ""]

FromDoc(d) ==
    [on_failure |-> Get(d.on_failure, "true"),
     on_success |-> Get(d.on_success, "false"),
     webhook_url |-> Get(d.webhook_url, ""),
     webhook_method |-> Get(d.webhook_method, "POST"),
     ntfy_url |-> Get(d.ntfy_url, ""),
     ntfy_topic |-> Get(d.ntfy_topic, "")]

\* the loop over config_paths: a missing or unparsable file is passed over
RECURSIVE FirstLoadable(_)
FirstLoadable(paths) ==
    IF paths = <<>> THEN DefaultNotifyConfig
    ELSE IF Head(paths).state = "ok" THEN FromDoc(Head(paths).doc)
    ELSE FirstLoadable(Tail(paths))

\* a loader without the except clause
ConfigRaisesUncaught(paths) ==
    \E i \in 1..Len(paths) :
        /\ paths[i].state = "malformed"
        /\ \A j \in 1..(i - 1) : paths[j].state # "ok"

\* except Exception: continue
ConfigRaises(paths) == FALSE

\* a loader that reads the files at every call
load_config_every_call(cache, paths) == FirstLoadable(paths)

\* _load_config: the module-level _notify_config once it is set, else the
\* first loadable file (or the defaults), which becomes _notify_config
load_config(cache, paths) == IF cache # <<>> THEN Head(cache) ELSE FirstLoadable(paths)

\* a check of the url alone
check_webhook_config_url_only(cfg) == Truthy(cfg.webhook_url)

check_webhook_config(cfg) == Truthy(cfg.webhook_url) /\ Truthy(cfg.webhook_method)

check_ntfy_config(cfg) == Truthy(cfg.ntfy_url) /\ Truthy(cfg.ntfy_topic)

Channels == {"webhook", "ntfy"}

Other(ch) == IF ch = "webhook" THEN "ntfy" ELSE "webhook"

\* outcomes of one HTTP request
Responses == {"200", "500", "exception", "timeout"}

NoThread == [st |-> "none", requests |-> 0, outcome |-> "", logged |-> ""]

NoNotify ==
    [pc |-> "idle", title |-> <<>>, content |-> "", force |-> FALSE, cache |-> <<>>,
     proceeded |-> FALSE, raised |-> FALSE, warned |-> {},
     webhook |-> NoThread, ntfy |-> NoThread]

\* a gate that consults the flags even when forced
SkipsByFlagsForced(title, force, cfg) ==
    \/ IsFailureTitle(title) /\ ~Truthy(cfg.on_failure)
    \/ ~IsFailureTitle(title) /\ ~Truthy(cfg.on_success)

\* if not force: ... return
SkipsByFlags(title, force, cfg) ==
    /\ ~force
    /\ \/ IsFailureTitle(title) /\ ~Truthy(cfg.on_failure)
       \/ ~IsFailureTitle(title) /\ ~Truthy(cfg.on_success)

NotifyFrame == UNCHANGED <<config, disk, wrapperExists, notifyExists, baseEnv, cronFile,
                           cronRet, cronRuns, envExists, envFile, envRuns, run,
                           envReadable, notifyOutcome, batch, listing, notifyFile,
                           configFile, envRet, mgr, web, rq>>

\* notify(title, content, force) up to the start of the webhook thread
NotifyEnter(title, content, force) ==
    /\ nt.pc \in {"idle", "returned"}
    /\ LET call == [NoNotify EXCEPT !.title = title, !.content = content,
                                    !.force = force, !.cache = nt.cache]
           cfg == load_config(nt.cache, notifyFile)
       IN IF content = ""
          THEN nt' = [call EXCEPT !.pc = "returned"]
          ELSE IF ConfigRaises(notifyFile) /\ nt.cache = <<>>
          THEN nt' = [call EXCEPT !.pc = "returned", !.raised = TRUE]
          ELSE IF SkipsByFlags(title, force, cfg)
          THEN nt' = [call EXCEPT !.pc = "returned", !.cache = <<cfg>>]
          ELSE IF check_webhook_config(cfg)
          THEN nt' = [call EXCEPT !.pc = "ntfy", !.cache = <<cfg>>, !.proceeded = TRUE,
                                  !.webhook = [NoThread EXCEPT !.st = "running"]]
          ELSE nt' = [call EXCEPT !.pc = "ntfy", !.cache = <<cfg>>, !.proceeded = TRUE,
                                  !.warned = {"webhook"}]
    /\ NotifyFrame

\* the ntfy branch of notify: start the thread or warn
NotifyStartNtfy ==
    /\ nt.pc = "ntfy"
    /\ IF check_ntfy_config(Head(nt.cache))
       THEN nt' = [nt EXCEPT !.pc = "join", !.ntfy = [NoThread EXCEPT !.st = "running"]]
       ELSE nt' = [nt EXCEPT !.pc = "join", !.warned = @ \cup {"ntfy"}]
    /\ NotifyFrame

\* the fields a channel function needs before it sends
HasTarget(ch, cfg) ==
    IF ch = "webhook" THEN Truthy(cfg.webhook_url)
    ELSE Truthy(cfg.ntfy_url) /\ Truthy(cfg.ntfy_topic)

\* a channel thread issues its request
ChannelSend(ch) ==
    /\ nt[ch].st = "running"
    /\ IF HasTarget(ch, Head(nt.cache))
       THEN nt' = [nt EXCEPT ![ch].st = "sent", ![ch].requests = @ + 1]
       ELSE nt' = [nt EXCEPT ![ch].st = "done", ![ch].logged = "warning"]
    /\ NotifyFrame

\* a thread whose failure ends the threads that have not sent yet
OtherAfterAbort(other, response) ==
    IF response # "200" /\ other.st = "running"
    THEN [other EXCEPT !.st = "done"]
    ELSE other

\* each channel function catches its own exception; the threads share nothing
OtherAfter(other, response) == other

\* the request of a channel thread completes and the thread logs and ends
ChannelComplete(ch, response) ==
    /\ nt[ch].st = "sent"
    /\ nt' = [nt EXCEPT ![ch] = [@ EXCEPT !.st = "done", !.outcome = response,
                                         !.logged = IF response = "200" THEN "success"
                                                    ELSE "error"],
                        ![Other(ch)] = OtherAfter(@, response)]
    /\ NotifyFrame

\* a join that does not wait
JoinReadyNoWait(n) == TRUE

\* for t in threads: t.join()
JoinReady(n) == \A ch \in Channels : n[ch].st \in {"none", "done"}

NotifyJoin ==
    /\ nt.pc = "join"
    /\ JoinReady(nt)
    /\ nt' = [nt EXCEPT !.pc = "returned"]
    /\ NotifyFrame

\* ---------------------------------------------------------------------------
\* manage.py: the container commands.  mgr is the operator's machine and the
\* last invocation: whether docker can be launched, whether the compose file
\* exists, whether the container runs, and what the invocation did (the
\* prompts it showed, the steps it entered and docker commands it ran, in
\* order, and what the steps and the command returned).
\* ---------------------------------------------------------------------------
NoCommand ==
    [docker |-> TRUE, compose |-> TRUE, running |-> FALSE, cmd |-> "none",
     answer |-> "none", prompts |-> 0, log |-> <<>>,
     stopRet |-> -1, startRet |-> -1, ret |-> -1, raised |-> FALSE]

\* a confirm whose interrupted prompt counts as consent
confirmInterruptConsents(answer) ==
    answer \in {"y", "yes", "shi", "queren", "interrupt"}

\* confirm: the stripped, lower-cased answer is one of the four words of
\* consent; EOF or an interrupt at the prompt is a refusal
confirm(answer) ==
    IF answer = "interrupt" THEN FALSE ELSE answer \in {"y", "yes", "shi", "queren"}

\* the prompt of confirm has been shown once more
Asked(m) == [m EXCEPT !.prompts = @ + 1]

Logged(m, what) == [m EXCEPT !.log = Append(@, what)]

\* is_running: docker ps lists the container; run_command turns a docker
\* that cannot be launched into return code 1, which reads as not running
is_running(m) == m.docker /\ m.running

\* cmd_status: 0 when the container runs, else 1
cmd_status(m) == IF is_running(m) THEN 0 ELSE 1

\* cmd_start: compose up -d unless the compose file is missing or the
\* container already runs; after a successful up the result is cmd_status
cmd_start(m0, upOk, alive) ==
    LET m == Logged(m0, "start")
        done(s, r) == [s EXCEPT !.startRet = r, !.ret = r]
    IN  IF ~m.compose THEN done(m, 1)
        ELSE IF is_running(m) THEN done(m, 0)
        ELSE LET u == Logged(m, "up")
             IN  IF ~(u.docker /\ upOk) THEN done(u, 1)
                 ELSE LET up == [u EXCEPT !.running = alive]
                      IN  done(up, cmd_status(up))

\* cmd_stop: compose down when the compose file exists, the container runs
\* and, if confirm_stop, the operator consents
cmd_stop(m0, confirm_stop, downOk) ==
    LET m == Logged(m0, "stop")
        done(s, r) == [s EXCEPT !.stopRet = r, !.ret = r]
    IN  IF ~m.compose THEN done(m, 1)
        ELSE IF ~is_running(m) THEN done(m, 0)
        ELSE IF confirm_stop /\ ~confirm(m.answer) THEN done(Asked(m), 0)
        ELSE LET d == Logged(IF confirm_stop THEN Asked(m) ELSE m, "down")
             IN  IF downOk THEN done([d EXCEPT !.running = FALSE], 0) ELSE done(d, 1)

\* cmd_restart: one confirmation unless called from reload, then cmd_stop
\* without confirmation, then cmd_start, whose result is returned
cmd_restart(m, confirm_restart, downOk, upOk, alive) ==
    IF confirm_restart /\ ~confirm(m.answer) THEN [Asked(m) EXCEPT !.ret = 0]
    ELSE cmd_start(cmd_stop(IF confirm_restart THEN Asked(m) ELSE m, FALSE, downOk),
                   upOk, alive)

\* cmd_reload: one confirmation, then cmd_restart without confirmation
cmd_reload(m, downOk, upOk, alive) ==
    IF ~confirm(m.answer) THEN [Asked(m) EXCEPT !.ret = 0]
    ELSE cmd_restart(Asked(m), FALSE, downOk, upOk, alive)

\* cmd_build: compose build, launched by subprocess.run outside run_command:
\* a docker that cannot be launched raises instead of returning 1
cmd_build(m, buildOk) ==
    IF ~m.compose THEN [m EXCEPT !.ret = 1]
    ELSE LET b == Logged(m, "build")
         IN  IF ~b.docker THEN [b EXCEPT !.raised = TRUE]
             ELSE [b EXCEPT !.ret = IF buildOk THEN 0 ELSE 1]

\* cmd_update: one confirmation, then cmd_stop without confirmation,
\* cmd_build and cmd_start, whose result is returned; an exception of
\* cmd_build leaves cmd_update before cmd_start
cmd_update(m, downOk, buildOk, upOk, alive) ==
    IF ~confirm(m.answer) THEN [Asked(m) EXCEPT !.ret = 0]
    ELSE LET b == cmd_build(cmd_stop(Asked(m), FALSE, downOk), buildOk)
         IN  IF b.raised THEN b ELSE cmd_start(b, upOk, alive)

\* a new invocation on the machine the last one left
Invoke(m, cmd, answer) ==
    [NoCommand EXCEPT !.docker = m.docker, !.compose = m.compose, !.running = m.running,
                      !.cmd = cmd, !.answer = answer]

Answers == {"y", "yes", "n", "", "interrupt"}

CmdFrame ==
    UNCHANGED <<config, disk, wrapperExists, notifyExists, baseEnv, cronFile, cronRet,
                cronRuns, envExists, envFile, envRuns, run, envReadable, notifyOutcome,
                batch, listing, notifyFile, nt, configFile, envRet, web, rq>>

CmdStart(upOk, alive) ==
    /\ mgr' = cmd_start(Invoke(mgr, "start", "none"), upOk, alive)
    /\ CmdFrame

CmdStop(answer, downOk) ==
    /\ mgr' = cmd_stop(Invoke(mgr, "stop", answer), TRUE, downOk)
    /\ CmdFrame

CmdRestart(answer, downOk, upOk, alive) ==
    /\ mgr' = cmd_restart(Invoke(mgr, "restart", answer), TRUE, downOk, upOk, alive)
    /\ CmdFrame

CmdReload(answer, downOk, upOk, alive) ==
    /\ mgr' = cmd_reload(Invoke(mgr, "reload", answer), downOk, upOk, alive)
    /\ CmdFrame

CmdUpdate(answer, downOk, buildOk, upOk, alive) ==
    /\ mgr' = cmd_update(Invoke(mgr, "update", answer), downOk, buildOk, upOk, alive)
    /\ CmdFrame

\* ---------------------------------------------------------------------------
\* webapp.py: the toggle endpoint.  The persisted configuration is config
\* (with configFile saying whether the file can be read); web holds the
\* requests the threaded server is handling, each with the copy of the
\* configuration it loaded, the previous finished request, and the
\* configuration the requests started from.
\* ---------------------------------------------------------------------------
NoToggle ==
    [pc |-> "idle", name |-> <<>>, before |-> Config(<<>>, FALSE, NoEnv),
     cfg |-> Config(<<>>, FALSE, NoEnv), ok |-> "none"]

NoWeb ==
    [req |-> <<NoToggle, NoToggle>>, prev |-> NoToggle,
     start |-> Config(<<>>, FALSE, NoEnv), tasks |-> <<>>]

\* a toggle that leaves an absent flag absent
FlipPresentOnly(task) ==
    [task EXCEPT !.enabled = CASE @ = "true" -> "false" [] @ = "false" -> "true" [] OTHER -> @]

\* task["enabled"] = not task.get("enabled", True)
Flip(task) == [task EXCEPT !.enabled = IF IsEnabled(task) THEN "false" ELSE "true"]

\* api_toggle_task up to save_config: load_config, then the first task whose
\* lower-cased name equals the lower-cased request gets its flag flipped in
\* the loaded copy; no readable configuration or no such task ends the
\* request with success false
ToggleLoaded(name) ==
    LET i == FindTask(config.tasks, name)
        r == [NoToggle EXCEPT !.name = name, !.before = config, !.cfg = config]
    IN  IF configFile # "ok" \/ i = 0
        THEN [r EXCEPT !.pc = "done", !.ok = "false"]
        ELSE [r EXCEPT !.pc = "loaded", !.cfg.tasks[i] = Flip(@)]

SaveOutcomes == {"saved", "open_failed", "write_failed"}

\* save_config of the loaded copy r.cfg: open(CONFIG_FILE, "w") and yaml.dump
\* replace the file by the copy; when open fails the file is as it was, when
\* the dump fails the file that open truncated cannot be loaded any more
Saved(r, outcome) ==
    [config     |-> IF outcome = "saved" THEN r.cfg ELSE config,
     configFile |-> IF outcome = "write_failed" THEN "malformed" ELSE configFile,
     req        |-> [r EXCEPT !.pc = "done",
                              !.ok = IF outcome = "saved" THEN "true" ELSE "false"]]

WebFrame ==
    UNCHANGED <<disk, wrapperExists, notifyExists, baseEnv, cronFile, cronRet,
                cronRuns, envExists, envFile, envRuns, run, envReadable, notifyOutcome,
                batch, listing, notifyFile, nt, envRet, mgr, rq>>

\* POST /api/tasks/<name>/toggle handled from beginning to end
ApiToggle(name, outcome) ==
    LET r == ToggleLoaded(name)
        w == IF r.pc = "done" THEN [config |-> config, configFile |-> configFile, req |-> r]
             ELSE Saved(r, outcome)
    IN  /\ config' = w.config
        /\ configFile' = w.configFile
        /\ web' = [web EXCEPT !.prev = web.req[1], !.req[1] = w.req]
        /\ WebFrame

\* a server thread takes a toggle request and runs it up to save_config
ToggleLoad(id, name) ==
    /\ web.req[id].pc = "idle"
    /\ web' = [web EXCEPT !.req[id] = ToggleLoaded(name)]
    /\ UNCHANGED <<config, configFile>>
    /\ WebFrame

\* the thread saves its copy and answers
ToggleSave(id, outcome) ==
    /\ web.req[id].pc = "loaded"
    /\ LET w == Saved(web.req[id], outcome)
       IN  /\ config' = w.config
           /\ configFile' = w.configFile
           /\ web' = [web EXCEPT !.req[id] = w.req]
    /\ WebFrame

\* the date part of webapp.py's parse_cron: the weekday's name when the weekday
\* field is one of 0..7, nothing otherwise
WebDateDesc(weekday, desc) ==
    IF weekday # <<"*">>
    THEN (IF weekday \in DOMAIN weekdays
          THEN Append(desc, <<"mei">> \o weekdays[weekday])
          ELSE desc)
    ELSE desc

\* parse_cron of webapp.py: minute and hour parts as in manage.py
webapp_parse_cron(cron_expr) ==
    LET parts == Split(cron_expr)
    IN IF Len(parts) # 5 THEN cron_expr
       ELSE LET desc == WebDateDesc(parts[5], HourDesc(parts[2], <<MinuteDesc(parts[1])>>))
            IN IF Len(desc) <= 3 THEN JoinSp(desc) ELSE cron_expr

\* one entry of GET /api/tasks; a task without schedule key has the empty text
ApiTaskRow(task) ==
    LET cron_expr == IF task.schedule = <<"absent">> THEN <<>> ELSE task.schedule
    IN [name |-> task.name, enabled |-> IsEnabled(task), schedule |-> cron_expr,
        schedule_desc |-> webapp_parse_cron(cron_expr)]

\* GET /api/tasks
ApiTasks ==
    /\ web' = [web EXCEPT !.tasks =
                  IF configFile # "ok" THEN <<>>
                  ELSE [i \in 1..Len(config.tasks) |-> ApiTaskRow(config.tasks[i])]]
    /\ UNCHANGED <<config, configFile>>
    /\ WebFrame

\* somebody replaces /app/config.yml between two calls of notify, after the
\* process has loaded its notification configuration
EditNotifyFile(f) ==
    /\ nt.pc \in {"idle", "returned"}
    /\ nt.cache # <<>>
    /\ notifyFile[1] # f
    /\ notifyFile' = [notifyFile EXCEPT ![1] = f]
    /\ UNCHANGED <<config, disk, wrapperExists, notifyExists, baseEnv, cronFile,
                   cronRet, cronRuns, envExists, envFile, envRuns, run,
                   envReadable, notifyOutcome, batch, listing, nt,
                   configFile, envRet, mgr, web, rq>>

\* ---------------------------------------------------------------------------
\* tasks/tieba.py: request_with_retry.  rq is one call: where it stands, its
\* retry argument, the loop variable i, and the outcome of every request it
\* has sent so far.
\* ---------------------------------------------------------------------------
NoRequest == [pc |-> "idle", retry |-> 0, i |-> 0, attempts |-> 0, outs |-> <<>>]

DefaultRetry == 3

\* what a request can end in: a response with JSON in it, an HTTP error status
\* (raise_for_status), an empty body, a body that is not JSON, or no response
\* within the timeout
Outcomes == {"ok", "http_error", "empty", "bad_json", "timeout"}

\* a loop that gives up at the first failure
AfterAttemptNoRetry(outcome, i, retry) ==
    IF outcome = "ok" THEN "returned" ELSE "raised"

\* the try block of one pass of the loop: return response.json(), or in the
\* except clause raise when i == retry - 1 and sleep otherwise
AfterAttempt(outcome, i, retry) ==
    IF outcome = "ok" THEN "returned"
    ELSE IF i = retry - 1 THEN "raised"
    ELSE "sleep"

RetryFrame ==
    UNCHANGED <<config, disk, wrapperExists, notifyExists, baseEnv, cronFile, cronRet,
                cronRuns, envExists, envFile, envRuns, run, envReadable, notifyOutcome,
                batch, listing, notifyFile, nt, configFile, envRet, mgr, web>>

\* request_with_retry is called: range(retry) is empty for retry = 0 and the
\* raise after the loop is reached at once
RetryCall(retry) ==
    /\ rq.pc \in {"idle", "returned", "raised"}
    /\ rq' = [NoRequest EXCEPT !.retry = retry,
                               !.pc = IF retry > 0 THEN "attempt" ELSE "raised"]
    /\ RetryFrame

\* session.get or session.post ends, with a response or with an exception
RetryAttempt(outcome) ==
    /\ rq.pc = "attempt"
    /\ rq' = [rq EXCEPT !.attempts = @ + 1,
                        !.outs = Append(@, outcome),
                        !.pc = AfterAttempt(outcome, rq.i, rq.retry)]
    /\ RetryFrame

\* time.sleep(1.5 * 2**i + random.uniform(0, 1)) ends and the loop goes on
\* with the next i, or leaves range(retry) for the raise after the loop
RetrySleep ==
    /\ rq.pc = "sleep"
    /\ rq' = [rq EXCEPT !.i = @ + 1,
                        !.pc = IF rq.i + 1 < rq.retry THEN "attempt" ELSE "raised"]
    /\ RetryFrame

(***************************************************************************)
(* State of the parts a specification does not exercise                    *)
(***************************************************************************)


Untouched ==
    /\ configFile = "ok"
    /\ envRet = "none"
    /\ mgr = NoCommand
    /\ web = NoWeb
    /\ rq = NoRequest
    /\ envReadable = TRUE
    /\ notifyOutcome = "ok"
    /\ batch = NoBatch
    /\ listing = NoListing
    /\ notifyFile = NoNotifyFile
    /\ nt = NoNotify

CronTasks == {Task(n, e, s, p, NoEnv) : n \in TaskNames, e \in EnabledFlags,
                                       s \in {"absent", OtherSchedule},
                                       p \in Scripts \cup {NoScript}}

InitCron ==
    /\ config \in {Config(ts, FALSE, NoEnv) : ts \in TaskSeqs(CronTasks)}
    /\ disk \in SUBSET Scripts
    /\ wrapperExists \in BOOLEAN
    /\ notifyExists = TRUE
    /\ baseEnv = NoEnv
    /\ cronFile = <<>>
    /\ cronRet = "none"
    /\ cronRuns = 0
    /\ envExists = FALSE
    /\ envFile = <<>>
    /\ envRuns = 0
    /\ run = NoRun
    /\ Untouched

NextCron == GenerateCron

SpecCron == InitCron /\ [][NextCron]_vars

EnvTasks == {Task(n, "true", "absent", "s1.py", v) : n \in TaskNames, v \in EnvMaps(EnvKeys)}

EnvConfigs ==
    {Config(ts, FALSE, NoEnv) : ts \in TaskSeqs(EnvTasks)}
    \cup {Config(ts, TRUE, g) : ts \in TaskSeqs(EnvTasks), g \in EnvMaps({KeyK})}

\* the container is up: its cron file has been generated once; /app/.env may
\* still be missing, which load_env_file provides for
InitEnv ==
    /\ config \in EnvConfigs
    /\ disk = Scripts
    /\ wrapperExists \in BOOLEAN
    /\ notifyExists = TRUE
    /\ baseEnv = NoEnv
    /\ cronFile = OpenCronFile(<<>>, CronOutput(config, disk, wrapperExists))
    /\ cronRet = "true"
    /\ cronRuns = 1
    /\ envExists = FALSE
    /\ envFile = <<>>
    /\ envRuns = 0
    /\ run = NoRun
    /\ Untouched

NextEnv ==
    \/ GenerateEnv
    \/ \E i \in 1..Len(cronFile) : RunCron(i, <<>>, 0)
    \/ \E req \in TaskNames : RunCli(req, <<>>, 0)
    \/ \E req \in TaskNames : RunWebui(req, <<>>, 0)

SpecEnv == InitEnv /\ [][NextEnv]_vars

LogLinesValues == {<<"0">>, <<"1">>, <<"2">>, <<"-", "1">>, <<"x">>}

WrapConfigs ==
    LET ts == <<Task(NameA, "true", "absent", "s1.py", NoEnv)>>
    IN {Config(ts, FALSE, NoEnv)}
       \cup {Config(ts, TRUE, [k \in {LogLinesKey} |-> v]) : v \in LogLinesValues}

Outputs == {[i \in 1..n |-> ToString(i)] : n \in 0..MaxOutput}

ExitCodes == {0, 1, 2}

InitWrap ==
    /\ config \in WrapConfigs
    /\ disk = Scripts
    /\ wrapperExists \in BOOLEAN
    /\ notifyExists \in BOOLEAN
    /\ baseEnv = NoEnv
    /\ cronFile = OpenCronFile(<<>>, CronOutput(config, disk, wrapperExists))
    /\ cronRet = "true"
    /\ cronRuns = 1
    /\ envExists = FALSE
    /\ envFile = <<>>
    /\ envRuns = 0
    /\ run = NoRun
    /\ Untouched

NextWrap ==
    \/ GenerateEnv
    \/ \E i \in 1..Len(cronFile), out \in Outputs, code \in ExitCodes : RunCron(i, out, code)
    \/ \E out \in Outputs, code \in ExitCodes : RunCli(NameA, out, code)
    \/ \E out \in Outputs, code \in ExitCodes : RunWebui(NameA, out, code)

SpecWrap == InitWrap /\ [][NextWrap]_vars

(***************************************************************************)
(* The wrapper on an env file that was not generated: well-formed lines,   *)
(* a line without "=", a line with an empty key                            *)
(***************************************************************************)
GoodLines ==
    { [text |-> <<EXPORT, "P", EQ, DQ, "1", DQ>>, key |-> <<"P">>, value |-> <<"1">>],
      [text |-> <<"P", EQ, SQ, "3", SQ>>, key |-> <<"P">>, value |-> <<"3">>],
      [text |-> <<"Q", EQ, "2">>, key |-> <<"Q">>, value |-> <<"2">>] }

BadLines == { <<"garbage">>, <<EQ, DQ, "x", DQ>> }

HandFiles ==
    UNION {[1..n -> {g.text : g \in GoodLines} \cup BadLines] : n \in 0..MaxEnvLines}

LoadConfig == Config(<<Task(NameA, "true", "absent", "s1.py", NoEnv)>>, FALSE, NoEnv)

InitLoad ==
    /\ config = LoadConfig
    /\ disk = Scripts
    /\ wrapperExists = TRUE
    /\ notifyExists \in BOOLEAN
    /\ baseEnv = NoEnv
    /\ cronFile = OpenCronFile(<<>>, CronOutput(config, disk, wrapperExists))
    /\ cronRet = "true"
    /\ cronRuns = 1
    /\ envExists \in BOOLEAN
    /\ envFile \in (IF envExists THEN HandFiles ELSE {<<>>})
    /\ envReadable \in (IF envExists THEN BOOLEAN ELSE {TRUE})
    /\ envRuns = 0
    /\ run = NoRun
    /\ notifyOutcome \in {"ok", "fails", "raises"}
    /\ batch = NoBatch
    /\ listing = NoListing
    /\ notifyFile = NoNotifyFile
    /\ nt = NoNotify
    /\ configFile = "ok"
    /\ envRet = "none"
    /\ mgr = NoCommand
    /\ web = NoWeb
    /\ rq = NoRequest

NextLoad ==
    \/ \E i \in 1..Len(cronFile), code \in ExitCodes : RunCron(i, <<"1">>, code)
    \/ \E code \in ExitCodes : RunCli(NameA, <<"1">>, code)
    \/ \E code \in ExitCodes : RunWebui(NameA, <<"1">>, code)

SpecLoad == InitLoad /\ [][NextLoad]_vars

(***************************************************************************)
(* Calls of notify under every configuration document                      *)
(***************************************************************************)
InitNotify ==
    /\ config = LoadConfig
    /\ disk = Scripts
    /\ wrapperExists = TRUE
    /\ notifyExists = TRUE
    /\ baseEnv = NoEnv
    /\ cronFile = <<>>
    /\ cronRet = "none"
    /\ cronRuns = 0
    /\ envExists = FALSE
    /\ envFile = <<>>
    /\ envRuns = 0
    /\ run = NoRun
    /\ envReadable = TRUE
    /\ notifyOutcome = "ok"
    /\ batch = NoBatch
    /\ listing = NoListing
    /\ notifyFile \in
           {<<f, g, File("missing", EmptyDoc)>> :
               f \in {File("missing", EmptyDoc), File("malformed", EmptyDoc)}
                     \cup {File("ok", d) :
                              d \in [on_failure : {"absent", "false"},
                                     on_success : {"absent", "true"},
                                     webhook_url : {"absent", "u"},
                                     webhook_method : {"absent", "", "GET"},
                                     ntfy_url : {"absent", "n"},
                                     ntfy_topic : {"absent", "t"}]},
               g \in {File("missing", EmptyDoc), File("malformed", EmptyDoc),
                      File("ok", [EmptyDoc EXCEPT !.ntfy_url = "n", !.ntfy_topic = "t"])}}
    /\ nt = NoNotify
    /\ configFile = "ok"
    /\ envRet = "none"
    /\ mgr = NoCommand
    /\ web = NoWeb
    /\ rq = NoRequest

NextNotify ==
    \/ \E title \in {<<"a", " run ", "FAILED">>, <<"a", " run ", "OK">>, <<"ERROR">>},
          content \in {"", "see the log"}, force \in BOOLEAN :
           NotifyEnter(title, content, force)
    \/ NotifyStartNtfy
    \/ \E ch \in Channels : ChannelSend(ch)
    \/ \E ch \in Channels, response \in Responses : ChannelComplete(ch, response)
    \/ NotifyJoin

SpecNotify == InitNotify /\ [][NextNotify]_vars

(***************************************************************************)
(* manage.py list and run --all on every schedule built from the field     *)
(* values below and every choice of enabled and disabled tasks             *)
(***************************************************************************)
Expr(m, h, d, mo, w) == m \o <<" ">> \o h \o <<" ">> \o d \o <<" ">> \o mo \o <<" ">> \o w

\* schedules of five fields, and four that do not have five fields
CronExprs ==
    {Expr(m, h, d, mo, w) :
        m \in {<<"*">>, <<"*", "/", "5">>, <<"0">>},
        h \in {<<"*">>, <<"*", "/", "2">>, <<"9">>},
        d \in {<<"*">>, <<"1">>}, mo \in {<<"*">>, <<"6">>},
        w \in {<<"*">>, <<"1">>, <<"8">>}}
    \cup {<<"@", "daily">>, <<"0", " ", "9", " ", "*">>, <<>>,
          Expr(<<"0">>, <<"9">>, <<"*">>, <<"*">>, <<"*">>) \o <<" ", "2030">>}

InitManage ==
    /\ config \in
           {Config(ts, FALSE, NoEnv) :
               ts \in {<<>>}
                  \cup {<<Task(NameA, e, s, "s1.py", NoEnv)>> :
                           e \in EnabledFlags, s \in CronExprs \cup {<<"absent">>}}
                  \cup {<<Task(NameA, e, s, "s1.py", NoEnv),
                          Task(NameAB, f, Expr(<<"0">>, <<"*">>, <<"*">>, <<"*">>, <<"*">>),
                               "s2.py", NoEnv)>> :
                           e \in EnabledFlags, f \in EnabledFlags,
                           s \in {Expr(<<"0">>, <<"9">>, <<"1">>, <<"6">>, <<"*">>),
                                  <<"absent">>}}}
    /\ disk = Scripts
    /\ wrapperExists = TRUE
    /\ notifyExists = TRUE
    /\ baseEnv = NoEnv
    /\ cronFile = <<>>
    /\ cronRet = "none"
    /\ cronRuns = 0
    /\ envExists = FALSE
    /\ envFile = <<>>
    /\ envRuns = 0
    /\ run = NoRun
    /\ Untouched

NextManage ==
    \/ CmdList
    \/ \E running \in BOOLEAN, codes \in [1..MaxTasks -> ExitCodes] : RunAll(running, codes)

SpecManage == InitManage /\ [][NextManage]_vars

(***************************************************************************)
(* The two generators on a configuration file that is there, missing or    *)
(* not YAML, with output files left by an earlier run or not there yet     *)
(***************************************************************************)
InitGen ==
    /\ config \in {Config(ts, FALSE, NoEnv) :
                      ts \in TaskSeqs({Task(n, "true", "absent", "s1.py", v) :
                                          n \in TaskNames,
                                          v \in {NoEnv, [k \in {KeyK} |-> Val1]}})}
    /\ configFile \in {"ok", "missing", "malformed"}
    /\ disk = Scripts
    /\ wrapperExists = TRUE
    /\ notifyExists = TRUE
    /\ baseEnv = NoEnv
    /\ cronFile \in {<<>>, CronOutput(config, disk, wrapperExists)}
    /\ cronRet = "none"
    /\ cronRuns = 0
    /\ envExists \in BOOLEAN
    /\ envFile = IF envExists THEN EnvOutput(config, "09:00:00") ELSE <<>>
    /\ envRuns = 0
    /\ envRet = "none"
    /\ run = NoRun
    /\ mgr = NoCommand
    /\ web = NoWeb
    /\ rq = NoRequest
    /\ envReadable = TRUE
    /\ notifyOutcome = "ok"
    /\ batch = NoBatch
    /\ listing = NoListing
    /\ notifyFile = NoNotifyFile
    /\ nt = NoNotify

NextGen == GenerateCron \/ GenerateEnv

SpecGen == InitGen /\ [][NextGen]_vars

\* single-task run requests, from the command line and from the web UI, for
\* known, unknown, disabled and script-less tasks, in any letter case
Requests == {NameA, NameAB, <<"A">>, <<"z">>}

InitRunOne ==
    /\ config \in {Config(ts, FALSE, NoEnv) :
                      ts \in TaskSeqs({Task(n, e, "absent", p, NoEnv) :
                                          n \in TaskNames, e \in EnabledFlags,
                                          p \in {"s1.py", NoScript}})}
    /\ disk \in {Scripts, {"s2.py"}}
    /\ wrapperExists \in BOOLEAN
    /\ notifyExists = FALSE
    /\ baseEnv = NoEnv
    /\ cronFile = <<>>
    /\ cronRet = "none"
    /\ cronRuns = 0
    /\ envExists = FALSE
    /\ envFile = <<>>
    /\ envRuns = 0
    /\ run = NoRun
    /\ Untouched

NextRunOne ==
    \/ \E req \in Requests, code \in ExitCodes : RunCli(req, <<>>, code)
    \/ \E req \in Requests, code \in ExitCodes : RunWebui(req, <<>>, code)

SpecRunOne == InitRunOne /\ [][NextRunOne]_vars

\* toggle requests of the web UI handled one after another
ToggleConfigs ==
    {Config(ts, g # NoEnv, g) :
        ts \in TaskSeqs({Task(n, e, "absent", "s1.py", NoEnv) :
                            n \in TaskNames, e \in EnabledFlags}),
        g \in {NoEnv, [k \in {KeyK} |-> Val1]}}

InitToggle ==
    /\ config \in ToggleConfigs
    /\ configFile \in {"ok", "missing"}
    /\ disk = Scripts
    /\ wrapperExists = TRUE
    /\ notifyExists = TRUE
    /\ baseEnv = NoEnv
    /\ cronFile = <<>>
    /\ cronRet = "none"
    /\ cronRuns = 0
    /\ envExists = FALSE
    /\ envFile = <<>>
    /\ envRuns = 0
    /\ run = NoRun
    /\ envRet = "none"
    /\ mgr = NoCommand
    /\ web = [NoWeb EXCEPT !.start = config]
    /\ rq = NoRequest
    /\ envReadable = TRUE
    /\ notifyOutcome = "ok"
    /\ batch = NoBatch
    /\ listing = NoListing
    /\ notifyFile = NoNotifyFile
    /\ nt = NoNotify

NextToggle == \E name \in Requests, outcome \in SaveOutcomes : ApiToggle(name, outcome)

SpecToggle == InitToggle /\ [][NextToggle]_vars

\* two toggle requests handled by two threads of the server, each once
NextRace ==
    \/ \E id \in 1..2, name \in Requests : ToggleLoad(id, name)
    \/ \E id \in 1..2, outcome \in SaveOutcomes : ToggleSave(id, outcome)

SpecRace == InitToggle /\ [][NextRace]_vars

\* the task list as manage.py list prints it and as the web UI serves it
NextDesc == CmdList \/ ApiTasks

SpecDesc == InitManage /\ [][NextDesc]_vars

\* environment values of up to MaxValLen characters, quotes, backslashes,
\* blanks and equals signs among them, written by generate_env and read back
\* by the wrapper that cron starts
RoundValues ==
    UNION {[1..n -> {DQ, SQ, BS, SP, EQ, "x"}] : n \in 0..MaxValLen}

InitRound ==
    /\ config \in {Config(<<Task(NameA, "true", "absent", "s1.py", [k \in {KeyK} |-> v])>>,
                           TRUE, [k \in {KeyK} |-> v]) : v \in RoundValues}
    /\ disk = Scripts
    /\ wrapperExists = TRUE
    /\ notifyExists = TRUE
    /\ baseEnv = NoEnv
    /\ cronFile = OpenCronFile(<<>>, CronOutput(config, disk, wrapperExists))
    /\ cronRet = "true"
    /\ cronRuns = 1
    /\ envExists = FALSE
    /\ envFile = <<>>
    /\ envRuns = 0
    /\ run = NoRun
    /\ Untouched

NextRound ==
    \/ GenerateEnv
    \/ \E i \in 1..Len(cronFile) : RunCron(i, <<>>, 0)

SpecRound == InitRound /\ [][NextRound]_vars

\* calls of notify in one process whose configuration file is edited
\* between the calls
NextNotifyEdit ==
    \/ NextNotify
    \/ \E f \in {File("missing", EmptyDoc),
                  File("ok", [EmptyDoc EXCEPT !.on_failure = "false", !.on_success = "true"]),
                  File("ok", [EmptyDoc EXCEPT !.webhook_url = "u"])} : EditNotifyFile(f)

SpecNotifyEdit == InitNotify /\ [][NextNotifyEdit]_vars

\* the container commands of manage.py, invoked one after another on a
\* machine where docker may be missing, the compose file may be missing and
\* the container may or may not run
InitCmd ==
    /\ config = Config(<<>>, FALSE, NoEnv)
    /\ disk = Scripts
    /\ wrapperExists = TRUE
    /\ notifyExists = TRUE
    /\ baseEnv = NoEnv
    /\ cronFile = <<>>
    /\ cronRet = "none"
    /\ cronRuns = 0
    /\ envExists = FALSE
    /\ envFile = <<>>
    /\ envRuns = 0
    /\ run = NoRun
    /\ configFile = "ok"
    /\ envRet = "none"
    /\ mgr \in {[NoCommand EXCEPT !.docker = d, !.compose = c, !.running = r] :
                    d \in BOOLEAN, c \in BOOLEAN, r \in BOOLEAN}
    /\ web = NoWeb
    /\ rq = NoRequest
    /\ envReadable = TRUE
    /\ notifyOutcome = "ok"
    /\ batch = NoBatch
    /\ listing = NoListing
    /\ notifyFile = NoNotifyFile
    /\ nt = NoNotify

NextCmd ==
    \/ \E upOk \in BOOLEAN, alive \in BOOLEAN : CmdStart(upOk, alive)
    \/ \E answer \in Answers, downOk \in BOOLEAN : CmdStop(answer, downOk)
    \/ \E answer \in Answers, downOk \in BOOLEAN, upOk \in BOOLEAN, alive \in BOOLEAN :
           CmdRestart(answer, downOk, upOk, alive)
    \/ \E answer \in Answers, downOk \in BOOLEAN, upOk \in BOOLEAN, alive \in BOOLEAN :
           CmdReload(answer, downOk, upOk, alive)
    \/ \E answer \in Answers, downOk \in BOOLEAN, buildOk \in BOOLEAN, upOk \in BOOLEAN,
          alive \in BOOLEAN :
           CmdUpdate(answer, downOk, buildOk, upOk, alive)

SpecCmd == InitCmd /\ [][NextCmd]_vars

\* calls of request_with_retry, one after another, with every retry argument
\* from 0 to MaxRetry and the default; every request and every sleep ends
\* (the requests carry timeout=10, the sleeps are finite)
NextRetry ==
    \/ \E retry \in (0..MaxRetry) \cup {DefaultRetry} : RetryCall(retry)
    \/ \E outcome \in Outcomes : RetryAttempt(outcome)
    \/ RetrySleep

InitRetry ==
    /\ config = Config(<<>>, FALSE, NoEnv)
    /\ disk = Scripts
    /\ wrapperExists = TRUE
    /\ notifyExists = TRUE
    /\ baseEnv = NoEnv
    /\ cronFile = <<>>
    /\ cronRet = "none"
    /\ cronRuns = 0
    /\ envExists = FALSE
    /\ envFile = <<>>
    /\ envRuns = 0
    /\ run = NoRun
    /\ Untouched

SpecRetry ==
    /\ InitRetry
    /\ [][NextRetry]_vars
    /\ WF_vars(\E outcome \in Outcomes : RetryAttempt(outcome))
    /\ WF_vars(RetrySleep)

Tasks == config.tasks
TaskIds == 1..Len(config.tasks)

(***************************************************************************)
(* C1: once generate_cron has run, the cron file holds no executable line  *)
(* of a task whose enabled flag is false, and a task without an enabled    *)
(* key whose script exists has its line.                                   *)
(***************************************************************************)
C1_DisabledOmitted ==
    cronRuns >= 1 =>
        \A i \in TaskIds :
            /\ Tasks[i].enabled = "false" => ExecLinesFor(cronFile, Tasks[i].name) = {}
            /\ (Tasks[i].enabled = "absent" /\ Tasks[i].script \in disk)
                   => ExecLinesFor(cronFile, Tasks[i].name) # {}

C1_Witness ==
    /\ cronRuns >= 1
    /\ \E i, j \in TaskIds :
          /\ Tasks[i].enabled = "false" /\ Tasks[i].script \in disk
          /\ Tasks[j].enabled = "absent"
          /\ ExecLinesFor(cronFile, Tasks[j].name) # {}

(***************************************************************************)
(* C2: a task whose script path is empty or not on disk gets no cron line, *)
(* every enabled task after it whose script exists still gets its line,    *)
(* and generate_cron returns success.                                      *)
(***************************************************************************)
C2_MissingScriptSkipped ==
    cronRuns >= 1 =>
        /\ cronRet = "true"
        /\ \A i \in TaskIds :
              (Tasks[i].script = NoScript \/ Tasks[i].script \notin disk) =>
                 /\ ExecLinesFor(cronFile, Tasks[i].name) = {}
                 /\ \A j \in TaskIds :
                       (j > i /\ IsEnabled(Tasks[j]) /\ Tasks[j].script \in disk)
                          => ExecLinesFor(cronFile, Tasks[j].name) # {}

C2_Witness ==
    /\ cronRuns >= 1
    /\ cronRet = "true"
    /\ \E i, j \in TaskIds :
          /\ j > i
          /\ IsEnabled(Tasks[i])
          /\ Tasks[i].script # NoScript /\ Tasks[i].script \notin disk
          /\ ExecLinesFor(cronFile, Tasks[i].name) = {}
          /\ ExecLinesFor(cronFile, Tasks[j].name) # {}

(***************************************************************************)
(* C3: after one or more generate_cron runs on the same configuration and  *)
(* cron file, the file holds exactly one executable line per enabled task  *)
(* with an existing script and none for the others.                        *)
(***************************************************************************)
C3_OneLinePerTask ==
    cronRuns >= 1 =>
        \A i \in TaskIds :
            Cardinality(ExecLinesFor(cronFile, Tasks[i].name))
               = IF SkipsTask(Tasks[i], disk) THEN 0 ELSE 1

(***************************************************************************)
(* C4: round trip.  For every task T and entry K: V of its env the env     *)
(* file holds the line export T_K="V", and a wrapper started with the name *)
(* T that loaded the file gives the child K = V.                           *)
(***************************************************************************)
C4_RoundTrip ==
    \A i \in TaskIds : \A K \in DOMAIN Tasks[i].env :
        /\ envExists =>
              \E l \in 1..Len(envFile) :
                  envFile[l] = ExportLine(EnvKey(Tasks[i].name, K), Tasks[i].env[K])
        /\ (run.viaWrapper /\ run.envLoaded /\ run.task = Tasks[i].name) =>
              /\ K \in DOMAIN run.childEnv
              /\ run.childEnv[K] = Tasks[i].env[K]

(***************************************************************************)
(* C5: the child of a wrapper run for T sees each variable of T under the  *)
(* unprefixed key K and does not see the prefixed key T_K.                 *)
(***************************************************************************)
C5_OnlyUnprefixed ==
    \A i \in TaskIds : \A K \in DOMAIN Tasks[i].env :
        (run.viaWrapper /\ run.envLoaded /\ run.task = Tasks[i].name) =>
            /\ K \in DOMAIN run.childEnv
            /\ EnvKey(Tasks[i].name, K) \notin DOMAIN run.childEnv

(***************************************************************************)
(* C6: no cross-task leakage.  A wrapper run for T1 never sets an          *)
(* unprefixed variable that T1 does not declare out of an env entry of     *)
(* another task T2.                                                        *)
(***************************************************************************)
C6_NoCrossTaskLeak ==
    \A i, j \in TaskIds :
        (i # j /\ run.viaWrapper /\ run.task = Tasks[i].name) =>
            \A K2 \in DOMAIN Tasks[j].env :
                LET key == EnvKey(Tasks[j].name, K2)
                    prefix == Tasks[i].name \o <<"_">>
                IN StartsWith(key, prefix) =>
                      \/ Drop(key, Len(prefix)) \notin DOMAIN run.stripped
                      \/ Drop(key, Len(prefix)) \in DOMAIN Tasks[i].env

(***************************************************************************)
(* C7: for every key defined both in global_env and in the env of the task *)
(* that is run, the child sees the task's value, whether the task was      *)
(* started by cron (with the env file loaded), by the CLI or by the web UI.*)
(***************************************************************************)
C7_TaskValueShadowsGlobal ==
    (run.spawned /\ (run.mode = "cron" => run.envLoaded)) =>
        LET i == FindTask(Tasks, run.task) IN
        \A K \in DOMAIN GlobalEnvOf(config) \cap DOMAIN Tasks[i].env :
            /\ K \in DOMAIN run.childEnv
            /\ run.childEnv[K] = Tasks[i].env[K]

(***************************************************************************)
(* C8: idempotence.  Once the env file has been generated, generating it   *)
(* again from the same configuration leaves every line but the one with    *)
(* the generation time as it was.                                          *)
(***************************************************************************)
IsTimestampLine(line) == StartsWith(line, TimestampMark)

WithoutTimestamp(file) == SelectSeq(file, LAMBDA line : ~IsTimestampLine(line))

C8_EnvIdempotent ==
    [][envRuns >= 1 => WithoutTimestamp(envFile') = WithoutTimestamp(envFile)]_vars

C8_Witness ==
    /\ envRuns >= 2
    /\ \E l \in 1..Len(envFile) : StartsWith(envFile[l], <<EXPORT>>)
    /\ \E l \in 1..Len(envFile) : IsTimestampLine(envFile[l])

C10_ExcerptAtMostN ==
    \A k \in 1..Len(run.notified) :
        (run.output # <<>> /\ run.notified[k].log_lines >= 0) =>
            /\ IsSuffix(run.notified[k].log_content, run.output)
            /\ Len(run.notified[k].log_content) <= run.notified[k].log_lines

(***************************************************************************)
(* C11: the wrapper's exit code is the child's exit code, whatever the     *)
(* child's code and whether the env file is absent, unreadable or          *)
(* malformed and the notifier absent, failing or raising.                  *)
(***************************************************************************)
C11_ExitCodeIsChilds ==
    (run.spawned /\ run.viaWrapper) => run.exit = run.childExit

C11_Witness ==
    /\ run.spawned /\ run.viaWrapper
    /\ run.childExit = 2 /\ run.exit = 2
    /\ notifyExists /\ notifyOutcome = "raises"
    /\ run.notified # <<>>
    /\ envExists
    /\ ~envReadable \/ \E i \in 1..Len(envFile) : envFile[i] \in BadLines

(***************************************************************************)
(* C12: load_env_file ignores malformed lines: every well-formed line of   *)
(* the env file that no later line overrides is in the environment after   *)
(* the load, whatever malformed lines stand before or after it.            *)
(***************************************************************************)
C12_GoodLinesLoaded ==
    (run.viaWrapper /\ run.envLoaded) =>
        \A i \in 1..Len(envFile) : \A g \in GoodLines :
            (/\ envFile[i] = g.text
             /\ \A j \in (i + 1)..Len(envFile) : \A h \in GoodLines :
                    envFile[j] = h.text => h.key # g.key)
            => /\ g.key \in DOMAIN run.loaded
               /\ run.loaded[g.key] = g.value

(***************************************************************************)
(* C13: a call of notify with non-empty content and force = false goes on  *)
(* to the channels exactly if the title has a failure keyword and          *)
(* on_failure is true, or has none and on_success is true; with force =    *)
(* true the flags are not consulted and the call goes on.                  *)
(***************************************************************************)
C13_TriggerFlags ==
    (nt.pc # "idle" /\ nt.content # "") =>
        LET cfg == FirstLoadable(notifyFile)
            failure == \E i \in 1..Len(nt.title) :
                           nt.title[i] \in {"FAILED", "ERROR", "EXCEPTION"}
        IN nt.proceeded <=> \/ nt.force
                            \/ failure /\ cfg.on_failure = "true"
                            \/ ~failure /\ cfg.on_success = "true"

C13_Witness ==
    /\ nt.pc = "returned" /\ nt.content # ""
    /\ nt.force /\ nt.proceeded
    /\ nt.title = <<"a", " run ", "FAILED">>
    /\ FirstLoadable(notifyFile).on_failure = "false"

(***************************************************************************)
(* C14: notify returns only after every channel thread it started has      *)
(* finished.                                                               *)
(***************************************************************************)
C14_ReturnsAfterThreads ==
    nt.pc = "returned" => \A ch \in Channels : nt[ch].st \in {"none", "done"}

C14_Witness ==
    /\ nt.pc = "returned"
    /\ nt.webhook.st = "done" /\ nt.ntfy.st = "done"
    /\ nt.webhook.outcome = "200" /\ nt.ntfy.outcome = "200"

C16_NeverRaises == ~nt.raised

C16_Witness ==
    /\ nt.pc = "returned" /\ nt.proceeded
    /\ notifyFile[1].state = "malformed"
    /\ nt.ntfy.outcome = "exception"

(***************************************************************************)
(* C17: a channel issues exactly one request when its minimum fields are   *)
(* there (webhook: url and method; ntfy: url and topic) and none           *)
(* otherwise, and never a second one; with only webhook.url set there is   *)
(* one webhook request and a warning that ntfy is not configured.          *)
(***************************************************************************)
C17_OneRequestPerChannel ==
    /\ \A ch \in Channels : nt[ch].requests <= 1
    /\ (nt.pc = "returned" /\ nt.proceeded) =>
           LET cfg == FirstLoadable(notifyFile)
           IN /\ nt.webhook.requests =
                     IF cfg.webhook_url # "" /\ cfg.webhook_method # "" THEN 1 ELSE 0
              /\ nt.ntfy.requests =
                     IF cfg.ntfy_url # "" /\ cfg.ntfy_topic # "" THEN 1 ELSE 0
              /\ notifyFile[1] = File("ok", [EmptyDoc EXCEPT !.webhook_url = "u"]) =>
                     /\ nt.webhook.requests = 1
                     /\ nt.ntfy.requests = 0
                     /\ "ntfy" \in nt.warned

C17_Witness ==
    /\ nt.pc = "returned" /\ nt.proceeded
    /\ notifyFile[1] = File("ok", [EmptyDoc EXCEPT !.webhook_url = "u"])
    /\ nt.webhook.requests = 1 /\ nt.webhook.st = "done"
    /\ "ntfy" \in nt.warned

(***************************************************************************)
(* C18: for the schedule "0 * * * *" the description the list command      *)
(* shows is "every hour" (mei xiao shi).                                   *)
(***************************************************************************)
C18_HourlySaysEveryHour ==
    \A i \in 1..Len(listing.rows) :
        listing.rows[i].schedule = <<"0", " ", "*", " ", "*", " ", "*", " ", "*">> =>
            listing.rows[i].readable = <<"mei", "xiao", "shi">>

\* C18 as the code has it: the description is "0 fen" (minute 0), and is shown
C18_HourlySaysMinuteOnly ==
    \A i \in 1..Len(listing.rows) :
        listing.rows[i].schedule = <<"0", " ", "*", " ", "*", " ", "*", " ", "*">> =>
            /\ listing.rows[i].readable = <<"0", "fen">>
            /\ listing.rows[i].shown

C18_Witness ==
    /\ listing.ret = 0
    /\ listing.total = 1
    /\ listing.enabledCount = 1
    /\ listing.rows[1].schedule = <<"0", " ", "*", " ", "*", " ", "*", " ", "*">>
    /\ listing.rows[1].readable = <<"0", "fen">>

\* the five fields of a schedule made of one-character fields and "*/n"
FieldsOf(row) == Split(row.schedule)

DayAndMonthSet(row) ==
    /\ Len(FieldsOf(row)) = 5
    /\ FieldsOf(row)[3] # <<"*">>
    /\ FieldsOf(row)[4] # <<"*">>

(***************************************************************************)
(* C19: for every schedule of five fields whose day-of-month and month are *)
(* both not "*", parse_cron returns the schedule itself, unchanged.        *)
(***************************************************************************)
C19_DateFallsBackToRaw ==
    \A i \in 1..Len(listing.rows) :
        DayAndMonthSet(listing.rows[i]) =>
            listing.rows[i].readable = listing.rows[i].schedule

\* C19 as the code has it: the minute and hour descriptions come first; with
\* weekday "*" they are followed by "ri qi: " and the schedule, otherwise by
\* the weekday's name or by nothing; the result is never the schedule alone
C19_DateAppendsRaw ==
    \A i \in 1..Len(listing.rows) :
        LET row == listing.rows[i] IN
        DayAndMonthSet(row) =>
            /\ row.readable # row.schedule
            /\ row.shown
            /\ FieldsOf(row)[5] = <<"*">> =>
                   /\ EndsWith(row.readable, <<"ri", "qi", ":", " ">> \o row.schedule)
                   /\ Len(row.readable) > Len(row.schedule) + 4
            /\ FieldsOf(row)[5] # <<"*">> =>
                   ~\E k \in 1..Len(row.readable) : row.readable[k] = "ri" /\ k < Len(row.readable)
                                                    /\ row.readable[k + 1] = "qi"

C19_Witness ==
    /\ listing.ret = 0
    /\ Len(listing.rows) >= 1
    /\ listing.rows[1].schedule = <<"0", " ", "9", " ", "1", " ", "6", " ", "*">>
    /\ listing.rows[1].readable =
           <<"0", "fen", " ", "9", "shi", " ", "ri", "qi", ":", " ",
             "0", " ", "9", " ", "1", " ", "6", " ", "*">>

\* the positions of the enabled tasks of the configuration
EnabledAt == {i \in 1..Len(config.tasks) : config.tasks[i].enabled # "false"}

\* run --all started every enabled task exactly once, in configuration order
StartedEachOnceInOrder ==
    /\ Len(batch.started) = Cardinality(EnabledAt)
    /\ Len(batch.results) = Len(batch.started)
    /\ \A i \in EnabledAt :
           Cardinality({k \in 1..Len(batch.started) :
                            batch.started[k] = config.tasks[i].name}) = 1
    /\ \A i, j \in EnabledAt : \A k, l \in 1..Len(batch.started) :
           (/\ i < j
            /\ batch.started[k] = config.tasks[i].name
            /\ batch.started[l] = config.tasks[j].name) => k < l

SomeTaskFailed == \E k \in 1..Len(batch.results) : batch.results[k] # 0

(***************************************************************************)
(* C20: run --all executes every enabled task exactly once, in             *)
(* configuration order, whatever the earlier tasks returned, and returns 1 *)
(* exactly if at least one task failed.                                    *)
(***************************************************************************)
C20_RunAllReturnsOneIffFailed ==
    (batch.ret # -1 /\ ~batch.refused) =>
        /\ StartedEachOnceInOrder
        /\ batch.ret = 1 <=> SomeTaskFailed

\* C20 as the code has it: with no enabled task the command returns 1 too
C20_RunAllReturnsOneIffFailedOrNone ==
    (batch.ret # -1 /\ ~batch.refused) =>
        /\ StartedEachOnceInOrder
        /\ batch.ret \in {0, 1}
        /\ batch.ret = 1 <=> (SomeTaskFailed \/ EnabledAt = {})

C20_Witness ==
    /\ ~batch.refused
    /\ Len(config.tasks) = 2
    /\ Len(batch.started) = 2
    /\ batch.results[1] # 0
    /\ batch.results[2] = 0
    /\ batch.ret = 1

(***************************************************************************)
(* C21: with the configuration file missing or not YAML, a run of          *)
(* generate_cron or of generate_env returns False (exit code 1) without    *)
(* raising and leaves the cron file, or the env file, as it was.           *)
(***************************************************************************)
C21_ConfigErrorsFailCleanly ==
    [][(configFile # "ok") =>
          ( /\ cronRuns' # cronRuns => (cronRet' = "false" /\ cronFile' = cronFile)
            /\ envRuns' # envRuns =>
                   (envRet' = "false" /\ envFile' = envFile /\ envExists' = envExists) )
      ]_vars

C21_Witness ==
    /\ configFile = "malformed"
    /\ cronRuns = 1 /\ cronRet = "false" /\ cronFile # <<>>
    /\ envRuns = 1 /\ envRet = "false" /\ envExists /\ envFile # <<>>

\* the docker commands an invocation ran that change the container
ContainerCommands == {mgr.log[i] : i \in DOMAIN mgr.log} \cap {"up", "down", "build"}

\* the operator was asked and did not consent
Cancelled == mgr.prompts > 0 /\ mgr.answer \notin {"y", "yes", "shi", "queren"}

\* C22: when the confirmation prompt of stop, restart, reload or update is
\* declined or interrupted, the invocation runs no compose up, compose down or
\* build, and returns 0.
C22_CancelRunsNothing ==
    (mgr.cmd \in {"stop", "restart", "reload", "update"} /\ Cancelled) =>
        (ContainerCommands = {} /\ mgr.ret = 0 /\ ~mgr.raised)

\* an interrupted prompt of update on a machine whose container runs
C22_Witness ==
    /\ mgr.cmd = "update"
    /\ mgr.answer = "interrupt"
    /\ mgr.prompts = 1
    /\ mgr.running /\ mgr.docker /\ mgr.compose
    /\ mgr.log = <<>>

\* the positions of a step in the log of the invocation
StepAt(what) == {i \in DOMAIN mgr.log : mgr.log[i] = what}

\* C28: restart, reload and update ask for confirmation exactly once per
\* invocation and, once the operator consents, enter the stop step once and
\* then the start step once, and return what the start step returned.
C28_StopThenStartOnce ==
    mgr.cmd \in {"restart", "reload", "update"} =>
        /\ mgr.prompts = 1
        /\ ~Cancelled =>
               /\ Cardinality(StepAt("stop")) = 1
               /\ Cardinality(StepAt("start")) = 1
               /\ \A i \in StepAt("stop"), j \in StepAt("start") : i < j
               /\ ~mgr.raised
               /\ mgr.ret = mgr.startRet

\* the tasks a request names, whatever the letter case
Named(req) == {i \in 1..Len(config.tasks) : Lower(config.tasks[i].name) = Lower(req)}

\* C23: a single-task run request, from the command line or the web UI, that
\* names no task, a disabled task or a task without script starts neither the
\* wrapper nor the script and ends with an error.
C23_BadRequestsStartNothing ==
    (/\ run.mode \in {"cli", "webui"}
     /\ \A i \in Named(run.task) :
            ~IsEnabled(config.tasks[i]) \/ config.tasks[i].script = NoScript)
        => (~run.spawned /\ run.exit # 0)

\* a web UI request, in capitals, for a disabled task that has a script on disk
C23_Witness ==
    /\ run.mode = "webui"
    /\ run.task = <<"A">>
    /\ Named(run.task) = {1}
    /\ config.tasks[1].enabled = "false"
    /\ config.tasks[1].script \in disk
    /\ wrapperExists
    /\ ~run.spawned
    /\ run.exit = 1

\* the tasks of cfg whose name is the request, whatever the letter case
NamedIn(cfg, req) == {i \in 1..Len(cfg.tasks) : Lower(cfg.tasks[i].name) = Lower(req)}

\* cfg with the flag of the tasks in idx inverted, an absent flag read as true
Inverted(cfg, idx) ==
    [cfg EXCEPT !.tasks = [i \in 1..Len(cfg.tasks) |->
        IF i \in idx
        THEN [cfg.tasks[i] EXCEPT !.enabled = IF @ = "false" THEN "true" ELSE "false"]
        ELSE cfg.tasks[i]]]

\* C24: a successful toggle of T leaves in the persisted configuration what
\* was there with T's flag inverted (an absent flag becomes false) and
\* nothing else changed; a toggle naming no task leaves the configuration as
\* it was; two successive successful toggles of T leave T's enabled state as
\* it was before the first.
C24_ToggleFlipsOnlyT ==
    LET r == web.req[1]
        p == web.prev
    IN  /\ r.ok = "true" =>
              /\ NamedIn(r.before, r.name) # {}
              /\ config = Inverted(r.before, NamedIn(r.before, r.name))
        /\ (r.pc = "done" /\ NamedIn(r.before, r.name) = {}) =>
              (r.ok = "false" /\ config = r.before)
        /\ (r.ok = "true" /\ p.ok = "true" /\ Lower(p.name) = Lower(r.name)) =>
              \A i \in NamedIn(config, r.name) :
                  IsEnabled(config.tasks[i]) = IsEnabled(p.before.tasks[i])

\* task a had no flag; toggled twice, the second time in capitals, it is
\* enabled again
C24_Witness ==
    /\ web.prev.ok = "true" /\ web.prev.name = NameA
    /\ web.prev.before.tasks[1].name = NameA
    /\ web.prev.before.tasks[1].enabled = "absent"
    /\ web.req[1].ok = "true" /\ web.req[1].name = <<"A">>
    /\ web.req[1].before.tasks[1].enabled = "false"
    /\ config.tasks[1].enabled = "true"
    /\ Len(config.tasks) = 2

\* C26: when two toggle requests for two different tasks have both been
\* answered with success, both flags are inverted in the persisted
\* configuration, however the two threads interleaved.
C26_NoLostToggle ==
    LET a == web.req[1]
        b == web.req[2]
    IN  (/\ a.ok = "true" /\ b.ok = "true"
         /\ Lower(a.name) # Lower(b.name))
            => config = Inverted(web.start,
                                 NamedIn(web.start, a.name) \cup NamedIn(web.start, b.name))

\* C25: for every schedule of five fields, the description the web UI serves
\* (parse_cron of webapp.py) is the description manage.py list prints
\* (parse_cron of manage.py).
C25_SameDescription ==
    (listing.ret = 0 /\ web.tasks # <<>>) =>
        \A i \in 1..Len(web.tasks) :
            Len(Split(web.tasks[i].schedule)) = 5 =>
                web.tasks[i].schedule_desc = listing.rows[i].readable

\* C27: every single-line value of global_env and of a task's env, with
\* double quotes, single quotes, backslashes, blanks or equals signs in it,
\* is in the environment that load_env_file builds from the file generate_env
\* wrote, under its key, character for character.
C27_ValueReadBack ==
    (run.mode = "cron" /\ run.envLoaded) =>
        /\ KeyK \in DOMAIN run.loaded
        /\ run.loaded[KeyK] = config.global_env[KeyK]
        /\ EnvKey(NameA, KeyK) \in DOMAIN run.loaded
        /\ run.loaded[EnvKey(NameA, KeyK)] = config.tasks[1].env[KeyK]

\* the value \" (a backslash, then a double quote) came back as it was
C27_Witness ==
    /\ run.mode = "cron"
    /\ run.envLoaded
    /\ config.global_env[KeyK] = <<BS, DQ>>
    /\ run.loaded[KeyK] = <<BS, DQ>>
    /\ \E i \in 1..Len(envFile) : envFile[i] = ExportLine(KeyK, <<BS, DQ>>)

\* C29: once the process has loaded its notification configuration, no step
\* changes the loaded values, and every later call of notify with content
\* decides by the loaded values whether it goes on to the channels, whatever
\* the configuration files hold by then.
C29_ConfigLoadedOnce ==
    [][(nt.cache # <<>>) =>
          ( /\ nt'.cache = nt.cache
            /\ (nt'.pc # "idle" /\ nt'.content # "") =>
                   LET cfg == Head(nt.cache)
                       failure == \E i \in 1..Len(nt'.title) :
                                      nt'.title[i] \in {"FAILED", "ERROR", "EXCEPTION"}
                   IN nt'.proceeded <=> \/ nt'.force
                                        \/ failure /\ cfg.on_failure = "true"
                                        \/ ~failure /\ cfg.on_success = "true" )
      ]_vars

\* a call for a failure is under way with the values loaded at first, while
\* the file now on disk would have it skipped
C29_Witness ==
    /\ nt.cache # <<>>
    /\ nt.pc \in {"ntfy", "join"}
    /\ nt.proceeded /\ ~nt.force
    /\ Head(nt.cache).on_failure = "true"
    /\ FirstLoadable(notifyFile).on_failure = "false"
    /\ nt.title = <<"a", " run ", "FAILED">>

\* what holds of a call of request_with_retry at every moment
RetryBounded ==
    /\ rq.attempts = Len(rq.outs)
    /\ rq.attempts <= rq.retry
    /\ \A k \in 1..Len(rq.outs) :
           rq.outs[k] = "ok" => (k = Len(rq.outs) /\ rq.pc = "returned")
    /\ rq.pc = "returned" => (rq.outs # <<>> /\ rq.outs[Len(rq.outs)] = "ok")
    /\ rq.pc = "raised" => rq.attempts = rq.retry

\* C30: a call of request_with_retry sends at most `retry` requests, returns
\* at the first request that succeeds and sends none after it, raises only
\* when `retry` requests in a row have failed, and always ends, returning or
\* raising.
C30_RetryBoundedAndEnds ==
    /\ []RetryBounded
    /\ (rq.pc \in {"attempt", "sleep"}) ~> (rq.pc \in {"returned", "raised"})

\* the default three attempts: two failures, then the response
C30_Witness ==
    /\ rq.pc = "returned"
    /\ rq.retry = DefaultRetry
    /\ rq.outs = <<"timeout", "http_error", "ok">>

====
